---- MODULE Spec2Model ----
(***************************************************************************)
(* PalHardwareGazebo (src/src/pal_hardware_gazebo.cpp): the hardware       *)
(* facade of a simulated robot.  initSim builds the joint Resources from   *)
(* the transmission description and the force-torque sensor definitions    *)
(* from the parameter server; readSim refreshes all buffers; writeSim      *)
(* applies the commands of the active writers under the facade's mutex.    *)
(*                                                                         *)
(* The Resource classes (internal::JointState, ...), the base class        *)
(* DefaultRobotHWSim (initActiveWriteResources, the e-stop setter, the     *)
(* mode switch) and the simulator are not part of the source file; they    *)
(* are modelled from the design document and marked as such.               *)
(***************************************************************************)
EXTENDS Integers, Sequences, FiniteSets, TLC

(***************************************************************************)
(* Bounds of the model.                                                    *)
(***************************************************************************)
\* longest list of (joint, interface type) declarations
MaxPairs == 2
\* largest number of force-torque sensors on the parameter server
MaxFT == 2
\* largest number of IMU sensor ids on the parameter server
MaxImu == 2
\* the simulator's clock runs from 0 to MaxTime
MaxTime == 2
\* controllers command values 0..MaxCmd
MaxCmd == 1

Joints == {"j1", "j2"}

Null == "null"

\* the four type strings initSim recognizes, and one it does not
JointStateInterface == "hardware_interface/JointStateInterface"
PositionJointInterface == "hardware_interface/PositionJointInterface"
VelocityJointInterface == "hardware_interface/VelocityJointInterface"
EffortJointInterface == "hardware_interface/EffortJointInterface"
UnknownInterface == "hardware_interface/PosVelJointInterface"

IfaceTypes ==
  {JointStateInterface, PositionJointInterface, VelocityJointInterface,
   EffortJointInterface, UnknownInterface}

Variants == {"JointState", "PositionJoint", "VelocityJoint", "EffortJoint"}

\* a Resource is identified by its joint and its class
AllRes == [joint : Joints, variant : Variants]

Range(s) == {s[k] : k \in DOMAIN s}

SeqsUpTo(S, n) == UNION {[1..k -> S] : k \in 0..n}

VARIABLES
  \* ---- inputs of initSim and the environment
  transmissions,      \* the (joint, interface type) pairs, in the order of the three nested loops
  modelJoints,        \* joints the simulated model has (model->GetJoint succeeds)
  throwsAt,           \* index of the pair whose Resource init fails unexpectedly (0: none)
  ftConfig,           \* force_torque parameters: sequence of [name, sensor_joint, frame]
  imuIds,             \* imu parameters: sequence of sensor ids
  imuSourceExists,    \* whether the sensor manager has "imu_sensor"
  modeSwitchParam,    \* gazebo_ros_control/enable_joint_mode_switching: "absent", "true", "false"
  simTime,            \* the simulator's clock
  \* ---- the facade
  initResult,         \* "none" before initSim, then "ok" (true) or "fail" (false)
  registered,         \* interface groups passed to registerInterface
  jointHandles,       \* (joint, variant) handles registered by the Resources' init
  rw_resources_,
  e_stop_active_,
  mode_switch_enabled_,
  active_w_resources_rt_,
  forceTorqueSensorDefinitions_,
  ftHandles,          \* handles registered in ft_sensor_interface_
  imuSensorDefinitions_,
  imuHandles,         \* handles registered in imu_sensor_interface_
  mutex_,             \* "none", "rt" (writeSim) or "switch" (mode switch)
  \* ---- the Resources' buffers and the actuators
  cmd,                \* command buffer of each Resource
  resState,           \* state buffer of each Resource
  applied,            \* what was last applied to the Resource's actuator channel
  \* ---- the cycle context's position in writeSim
  pcW,                \* "idle" or "writing"
  writeIdx,           \* position of the BOOST_FOREACH over active_w_resources_rt_
  \* ---- history
  writeSnapshot,      \* active_w_resources_rt_ when writeSim took the lock
  writeLog,           \* the write calls of the writeSim in progress: [res, eStop]
  pcS,                \* the mode-switching context: "idle" or "locked"
  nullDeref           \* readSim dereferenced a null gazebo_joint

vars ==
  <<transmissions, modelJoints, throwsAt, ftConfig, imuIds, imuSourceExists,
    modeSwitchParam, simTime, initResult, registered, jointHandles,
    rw_resources_, e_stop_active_, mode_switch_enabled_,
    active_w_resources_rt_, forceTorqueSensorDefinitions_, ftHandles,
    imuSensorDefinitions_, imuHandles, mutex_, cmd, resState, applied, pcW,
    writeIdx, writeSnapshot, writeLog, pcS, nullDeref>>

configVars ==
  <<transmissions, modelJoints, throwsAt, ftConfig, imuIds, imuSourceExists,
    modeSwitchParam>>

sensorVars ==
  <<forceTorqueSensorDefinitions_, ftHandles, imuSensorDefinitions_,
    imuHandles>>

writeVars == <<pcW, writeIdx, writeSnapshot, writeLog>>

(***************************************************************************)
(* Values                                                                  *)
(***************************************************************************)
\* what the simulator returns for channel `kind` of source `src` at time t
Sample(kind, src, t) == [kind |-> kind, src |-> src, t |-> t]

\* a buffer nobody has written yet
Unset(kind) == [kind |-> kind, src |-> "none", t |-> -1]

NotApplied == [kind |-> "none", value |-> 0]

\* the variant's safe command (zero effort, zero velocity, hold position)
SafeValue(variant) == [kind |-> "safe:" \o variant, value |-> 0]

RawValue(v) == [kind |-> "raw", value |-> v]

FrameOf(id) == id \o "_frame"

(***************************************************************************)
(* initSim: the Resource factory                                           *)
(***************************************************************************)
\* the Resource class the if/else-if chain builds for a type string; Null
\* when no branch matches and res stays empty
ResourceFor_DefaultBranch(iface_type) ==
  CASE iface_type = JointStateInterface -> "JointState"
    [] iface_type = PositionJointInterface -> "PositionJoint"
    [] iface_type = VelocityJointInterface -> "VelocityJoint"
    [] iface_type = EffortJointInterface -> "EffortJoint"
    [] OTHER -> "JointState"

ResourceFor(iface_type) ==
  CASE iface_type = JointStateInterface -> "JointState"
    [] iface_type = PositionJointInterface -> "PositionJoint"
    [] iface_type = VelocityJointInterface -> "VelocityJoint"
    [] iface_type = EffortJointInterface -> "EffortJoint"
    [] OTHER -> Null

\* Resource::init for the i-th pair: what it throws, or "ok" when it binds
\* the joint and registers its handle
ResourceInit(i, res, handles) ==
  IF res \in handles THEN "ExistingResourceException"
  ELSE IF res.joint \notin modelJoints THEN "runtime_error"
  ELSE IF i = throwsAt THEN "other"
  ELSE "ok"

\* the state of the facade while the loops run
FactoryStart == [ok |-> TRUE, rw |-> <<>>, handles |-> {}]

AddResource_SwallowRuntimeError(i, st) ==
  LET variant == ResourceFor(transmissions[i].iface)
      res == [joint |-> transmissions[i].joint, variant |-> variant]
  IN IF variant = Null THEN st
     ELSE LET thrown == ResourceInit(i, res, st.handles)
          IN CASE thrown = "ok" ->
                    [ok |-> TRUE, rw |-> Append(st.rw, res),
                     handles |-> st.handles \cup {res}]
               [] thrown = "ExistingResourceException" -> st
               [] thrown = "runtime_error" -> st
               [] OTHER -> [st EXCEPT !.ok = FALSE]

AddResource_PushBeforeInit(i, st) ==
  LET variant == ResourceFor(transmissions[i].iface)
      res == [joint |-> transmissions[i].joint, variant |-> variant]
  IN IF variant = Null THEN st
     ELSE LET thrown == ResourceInit(i, res, st.handles)
              pushed == [st EXCEPT !.rw = Append(st.rw, res)]
          IN CASE thrown = "ok" ->
                    [pushed EXCEPT !.handles = st.handles \cup {res}]
               [] thrown = "ExistingResourceException" -> pushed
               [] thrown = "runtime_error" -> [pushed EXCEPT !.ok = FALSE]
               [] OTHER -> [pushed EXCEPT !.ok = FALSE]

\* the exception is swallowed, but the push_back has moved after the try
AddResource_PushOnExisting(i, st) ==
  LET variant == ResourceFor(transmissions[i].iface)
      res == [joint |-> transmissions[i].joint, variant |-> variant]
  IN IF variant = Null THEN st
     ELSE LET thrown == ResourceInit(i, res, st.handles)
          IN CASE thrown = "ok" ->
                    [ok |-> TRUE, rw |-> Append(st.rw, res),
                     handles |-> st.handles \cup {res}]
               [] thrown = "ExistingResourceException" ->
                    [st EXCEPT !.rw = Append(st.rw, res)]
               [] thrown = "runtime_error" -> [st EXCEPT !.ok = FALSE]
               [] OTHER -> [st EXCEPT !.ok = FALSE]

\* the body of the innermost loop for the i-th pair: build the Resource,
\* init it, push it back; the three catch clauses
AddResource(i, st) ==
  LET variant == ResourceFor(transmissions[i].iface)
      res == [joint |-> transmissions[i].joint, variant |-> variant]
  IN IF variant = Null THEN st
     ELSE LET thrown == ResourceInit(i, res, st.handles)
          IN CASE thrown = "ok" ->
                    [ok |-> TRUE, rw |-> Append(st.rw, res),
                     handles |-> st.handles \cup {res}]
               [] thrown = "ExistingResourceException" -> st
               [] thrown = "runtime_error" -> [st EXCEPT !.ok = FALSE]
               [] OTHER -> [st EXCEPT !.ok = FALSE]

\* the nested BOOST_FOREACH loops from the i-th pair on; `return false`
\* leaves them at once
RECURSIVE InitResources(_, _)
InitResources(i, st) ==
  IF i > Len(transmissions) \/ ~st.ok THEN st
  ELSE InitResources(i + 1, AddResource(i, st))

\* the four registerInterface calls that open initSim
RegisterJointInterfaces == {"js", "ej", "pj", "vj"}

\* nh.getParam leaves the default in place when the parameter is absent
ReadModeSwitchParam ==
  IF modeSwitchParam = "absent" THEN TRUE ELSE modeSwitchParam = "true"

\* DefaultRobotHWSim::initActiveWriteResources: all Resources that write
InitActiveWriteResources(rw) ==
  SelectSeq(rw, LAMBDA r : r.variant # "JointState")

(***************************************************************************)
(* The sensor parsers                                                      *)
(***************************************************************************)
\* model->GetJoint(name)
GetJoint(name) == IF name \in modelJoints THEN name ELSE Null

NewForceTorqueSensorDefinition(c) ==
  [sensorName |-> c.name, sensorJointName |-> c.sensor_joint,
   sensorFrame |-> c.frame, gazebo_joint |-> GetJoint(c.sensor_joint),
   force |-> Unset("force"), torque |-> Unset("torque")]

RECURSIVE ParseFT_PushFirst(_, _)
ParseFT_PushFirst(i, defs) ==
  IF i > Len(ftConfig) THEN [ok |-> TRUE, defs |-> defs]
  ELSE LET ft == NewForceTorqueSensorDefinition(ftConfig[i])
       IN IF ft.gazebo_joint = Null
            THEN [ok |-> FALSE, defs |-> Append(defs, ft)]
            ELSE ParseFT_PushFirst(i + 1, Append(defs, ft))

\* the loop of parseForceTorqueSensors from the i-th id on
RECURSIVE ParseFT(_, _)
ParseFT(i, defs) ==
  IF i > Len(ftConfig) THEN [ok |-> TRUE, defs |-> defs]
  ELSE LET ft == NewForceTorqueSensorDefinition(ftConfig[i])
       IN IF ft.gazebo_joint = Null
            THEN [ok |-> FALSE, defs |-> defs]
            ELSE ParseFT(i + 1, Append(defs, ft))

\* the definition is pushed back before its joint is checked
ParseForceTorqueSensors_PushFirst ==
  ParseFT_PushFirst(1, forceTorqueSensorDefinitions_)

\* parseForceTorqueSensors: its return value and the list it leaves
ParseForceTorqueSensors == ParseFT(1, forceTorqueSensorDefinitions_)

NewImuSensorDefinition(id) ==
  [sensorName |-> id, sensorFrame |-> FrameOf(id),
   gazebo_imu_sensor |-> "imu_sensor",
   orientation |-> Unset("orientation"),
   base_ang_vel |-> Unset("angular_velocity"),
   linear_acceleration |-> Unset("linear_acceleration")]

\* the loop of parseIMUSensors from the i-th id on
RECURSIVE ParseIMU(_, _)
ParseIMU(i, defs) ==
  IF i > Len(imuIds) THEN [ok |-> TRUE, defs |-> defs]
  ELSE IF ~imuSourceExists THEN [ok |-> FALSE, defs |-> defs]
  ELSE ParseIMU(i + 1, Append(defs, NewImuSensorDefinition(imuIds[i])))

\* parseIMUSensors: its return value and the list it leaves.  No function
\* of the source file calls it.
ParseIMUSensors == ParseIMU(1, imuSensorDefinitions_)

ForceTorqueSensorHandle(ft) ==
  [name |-> ft.sensorName, frame |-> ft.sensorFrame]

ImuSensorHandle(imu) ==
  [name |-> imu.sensorName, frame_id |-> imu.sensorFrame]

(***************************************************************************)
(* initSim                                                                 *)
(***************************************************************************)
InitSim ==
  /\ initResult = "none"
  /\ LET st == InitResources(1, FactoryStart)
     IN /\ rw_resources_' = st.rw
        /\ jointHandles' = st.handles
        /\ IF ~st.ok
             THEN \* return false from inside the loops
                  /\ initResult' = "fail"
                  /\ registered' = registered \cup RegisterJointInterfaces
                  /\ UNCHANGED <<e_stop_active_, mode_switch_enabled_,
                                 active_w_resources_rt_, sensorVars>>
             ELSE LET ft == ParseForceTorqueSensors
                  IN /\ e_stop_active_' = FALSE
                     /\ mode_switch_enabled_' = ReadModeSwitchParam
                     /\ active_w_resources_rt_' =
                          InitActiveWriteResources(st.rw)
                     \* the value parseForceTorqueSensors returns is dropped
                     /\ forceTorqueSensorDefinitions_' = ft.defs
                     /\ ftHandles' =
                          ftHandles \o
                            [k \in DOMAIN ft.defs |->
                               ForceTorqueSensorHandle(ft.defs[k])]
                     /\ imuSensorDefinitions_' = imuSensorDefinitions_
                     /\ imuHandles' =
                          imuHandles \o
                            [k \in DOMAIN imuSensorDefinitions_ |->
                               ImuSensorHandle(imuSensorDefinitions_[k])]
                     /\ registered' =
                          registered \cup RegisterJointInterfaces
                            \cup {"ft", "imu"}
                     /\ initResult' = "ok"
  /\ UNCHANGED <<configVars, simTime, mutex_, cmd, resState, applied,
                 writeVars, pcS, nullDeref>>

(***************************************************************************)
(* readSim                                                                 *)
(***************************************************************************)
\* Resource::read: the state buffer takes the joint's current state
ResourceRead(r) == Sample("state", r.joint, simTime)

\* gazebo_joint->GetForceTorque(0u) through a null pointer is undefined:
\* the buffers may then hold anything, which the flag nullDeref records
ReadForceTorque(ft) ==
  IF ft.gazebo_joint = Null THEN ft
  ELSE [ft EXCEPT !.force = Sample("force", ft.gazebo_joint, simTime),
                  !.torque = Sample("torque", ft.gazebo_joint, simTime)]

ReadImu(imu) ==
  [imu EXCEPT
     !.orientation = Sample("orientation", imu.gazebo_imu_sensor, simTime),
     !.base_ang_vel =
        Sample("angular_velocity", imu.gazebo_imu_sensor, simTime),
     !.linear_acceleration =
        Sample("linear_acceleration", imu.gazebo_imu_sensor, simTime)]

ReadSim ==
  /\ initResult = "ok"
  /\ pcW = "idle"
  /\ resState' =
       [r \in AllRes |->
          IF r \in Range(rw_resources_) THEN ResourceRead(r) ELSE resState[r]]
  /\ forceTorqueSensorDefinitions_' =
       [k \in DOMAIN forceTorqueSensorDefinitions_ |->
          ReadForceTorque(forceTorqueSensorDefinitions_[k])]
  /\ nullDeref' =
       (nullDeref \/ \E k \in DOMAIN forceTorqueSensorDefinitions_ :
                        forceTorqueSensorDefinitions_[k].gazebo_joint = Null)
  /\ imuSensorDefinitions_' =
       [k \in DOMAIN imuSensorDefinitions_ |->
          ReadImu(imuSensorDefinitions_[k])]
  /\ UNCHANGED <<configVars, simTime, initResult, registered, jointHandles,
                 rw_resources_, e_stop_active_, mode_switch_enabled_,
                 active_w_resources_rt_, ftHandles, imuHandles, mutex_, cmd,
                 applied, writeVars, pcS>>

(***************************************************************************)
(* writeSim, one step per statement that another context can observe       *)
(***************************************************************************)
\* Resource::write: the actuator channel takes the command, or the
\* variant's safe value under emergency stop; a JointState writes nothing
ResourceWrite(r, eStopActive) ==
  IF r.variant = "JointState" THEN applied[r]
  ELSE IF eStopActive THEN SafeValue(r.variant)
  ELSE RawValue(cmd[r])

\* writeSim without the unique_lock
WriteSimBegin_NoLock ==
  /\ initResult = "ok"
  /\ pcW = "idle"
  /\ pcW' = "writing"
  /\ writeIdx' = 1
  /\ writeSnapshot' = active_w_resources_rt_
  /\ writeLog' = <<>>
  /\ UNCHANGED <<configVars, simTime, initResult, registered, jointHandles,
                 rw_resources_, e_stop_active_, mode_switch_enabled_,
                 active_w_resources_rt_, sensorVars, cmd, resState, applied,
                 pcS, nullDeref, mutex_>>

\* boost::unique_lock<boost::mutex> lock(mutex_): blocks until the mutex
\* is free
WriteSimBegin ==
  /\ initResult = "ok"
  /\ pcW = "idle"
  /\ mutex_ = "none"
  /\ mutex_' = "rt"
  /\ pcW' = "writing"
  /\ writeIdx' = 1
  /\ writeSnapshot' = active_w_resources_rt_
  /\ writeLog' = <<>>
  /\ UNCHANGED <<configVars, simTime, initResult, registered, jointHandles,
                 rw_resources_, e_stop_active_, mode_switch_enabled_,
                 active_w_resources_rt_, sensorVars, cmd, resState, applied,
                 pcS, nullDeref>>

\* the loop runs over rw_resources_ instead of the active writers
WriteSimStep_AllResources ==
  /\ pcW = "writing"
  /\ writeIdx <= Len(rw_resources_)
  /\ LET res == rw_resources_[writeIdx]
     IN /\ applied' =
             [applied EXCEPT ![res] = ResourceWrite(res, e_stop_active_)]
        /\ writeLog' =
             Append(writeLog, [res |-> res, eStop |-> e_stop_active_])
  /\ writeIdx' = writeIdx + 1
  /\ UNCHANGED <<configVars, simTime, initResult, registered, jointHandles,
                 rw_resources_, e_stop_active_, mode_switch_enabled_,
                 active_w_resources_rt_, sensorVars, mutex_, cmd, resState,
                 pcW, writeSnapshot, pcS, nullDeref>>

\* the loop passes false instead of e_stop_active_
WriteSimStep_IgnoreEStop ==
  /\ pcW = "writing"
  /\ writeIdx <= Len(active_w_resources_rt_)
  /\ LET res == active_w_resources_rt_[writeIdx]
     IN /\ applied' = [applied EXCEPT ![res] = ResourceWrite(res, FALSE)]
        /\ writeLog' = Append(writeLog, [res |-> res, eStop |-> FALSE])
  /\ writeIdx' = writeIdx + 1
  /\ UNCHANGED <<configVars, simTime, initResult, registered, jointHandles,
                 rw_resources_, e_stop_active_, mode_switch_enabled_,
                 active_w_resources_rt_, sensorVars, mutex_, cmd, resState,
                 pcW, writeSnapshot, pcS, nullDeref>>

\* one iteration of BOOST_FOREACH(RwResPtr res, active_w_resources_rt_)
WriteSimStep ==
  /\ pcW = "writing"
  /\ writeIdx <= Len(active_w_resources_rt_)
  /\ LET res == active_w_resources_rt_[writeIdx]
     IN /\ applied' =
             [applied EXCEPT ![res] = ResourceWrite(res, e_stop_active_)]
        /\ writeLog' =
             Append(writeLog, [res |-> res, eStop |-> e_stop_active_])
  /\ writeIdx' = writeIdx + 1
  /\ UNCHANGED <<configVars, simTime, initResult, registered, jointHandles,
                 rw_resources_, e_stop_active_, mode_switch_enabled_,
                 active_w_resources_rt_, sensorVars, mutex_, cmd, resState,
                 pcW, writeSnapshot, pcS, nullDeref>>

\* the loop is over; the lock's destructor releases the mutex
WriteSimEnd ==
  /\ pcW = "writing"
  /\ writeIdx > Len(active_w_resources_rt_)
  /\ mutex_' = (IF mutex_ = "rt" THEN "none" ELSE mutex_)
  /\ pcW' = "idle"
  /\ writeIdx' = 0
  /\ writeSnapshot' = <<>>
  /\ writeLog' = <<>>
  /\ UNCHANGED <<configVars, simTime, initResult, registered, jointHandles,
                 rw_resources_, e_stop_active_, mode_switch_enabled_,
                 active_w_resources_rt_, sensorVars, cmd, resState, applied,
                 pcS, nullDeref>>

(***************************************************************************)
(* The facade's surroundings                                               *)
(***************************************************************************)
\* a controller stores a command through the Resource's handle, between
\* readSim and writeSim of the cycle context
SetCommand ==
  /\ initResult = "ok"
  /\ pcW = "idle"
  /\ \E r \in Range(rw_resources_), v \in 0..MaxCmd :
       /\ r.variant # "JointState"
       /\ cmd[r] # v
       /\ cmd' = [cmd EXCEPT ![r] = v]
  /\ UNCHANGED <<configVars, simTime, initResult, registered, jointHandles,
                 rw_resources_, e_stop_active_, mode_switch_enabled_,
                 active_w_resources_rt_, sensorVars, mutex_, resState,
                 applied, writeVars, pcS, nullDeref>>

\* the emergency stop is asserted or released from outside, at any time
SetEStop ==
  /\ initResult = "ok"
  /\ e_stop_active_' = ~e_stop_active_
  /\ UNCHANGED <<configVars, simTime, initResult, registered, jointHandles,
                 rw_resources_, mode_switch_enabled_, active_w_resources_rt_,
                 sensorVars, mutex_, cmd, resState, applied, writeVars, pcS,
                 nullDeref>>

\* the mode-switching context takes the mutex ...
SwitchBegin ==
  /\ initResult = "ok"
  /\ mode_switch_enabled_
  /\ pcS = "idle"
  /\ mutex_ = "none"
  /\ mutex_' = "switch"
  /\ pcS' = "locked"
  /\ UNCHANGED <<configVars, simTime, initResult, registered, jointHandles,
                 rw_resources_, e_stop_active_, mode_switch_enabled_,
                 active_w_resources_rt_, sensorVars, cmd, resState, applied,
                 writeVars, nullDeref>>

\* ... replaces the active writers by some of the writing Resources, and
\* releases the mutex
SwitchCommit ==
  /\ pcS = "locked"
  /\ \E keep \in SUBSET Range(InitActiveWriteResources(rw_resources_)) :
       /\ active_w_resources_rt_' =
            SelectSeq(rw_resources_, LAMBDA r : r \in keep)
       /\ active_w_resources_rt_' # active_w_resources_rt_
  /\ mutex_' = "none"
  /\ pcS' = "idle"
  /\ UNCHANGED <<configVars, simTime, initResult, registered, jointHandles,
                 rw_resources_, e_stop_active_, mode_switch_enabled_,
                 sensorVars, cmd, resState, applied, writeVars, nullDeref>>

\* the simulation advances
SimStep ==
  /\ simTime < MaxTime
  /\ simTime' = simTime + 1
  /\ UNCHANGED <<configVars, initResult, registered, jointHandles,
                 rw_resources_, e_stop_active_, mode_switch_enabled_,
                 active_w_resources_rt_, sensorVars, mutex_, cmd, resState,
                 applied, writeVars, pcS, nullDeref>>

(***************************************************************************)
(* Specifications                                                          *)
(***************************************************************************)
\* the facade after its constructor; the two flags are assigned by initSim
\* before anything reads them
InitFacade ==
  /\ simTime = 0
  /\ initResult = "none"
  /\ registered = {}
  /\ jointHandles = {}
  /\ rw_resources_ = <<>>
  /\ e_stop_active_ = FALSE
  /\ mode_switch_enabled_ = FALSE
  /\ active_w_resources_rt_ = <<>>
  /\ forceTorqueSensorDefinitions_ = <<>>
  /\ ftHandles = <<>>
  /\ imuSensorDefinitions_ = <<>>
  /\ imuHandles = <<>>
  /\ mutex_ = "none"
  /\ cmd = [r \in AllRes |-> 0]
  /\ resState = [r \in AllRes |-> Unset("state")]
  /\ applied = [r \in AllRes |-> NotApplied]
  /\ pcW = "idle"
  /\ writeIdx = 0
  /\ writeSnapshot = <<>>
  /\ writeLog = <<>>
  /\ pcS = "idle"
  /\ nullDeref = FALSE

Pairs == [joint : Joints, iface : IfaceTypes]

FtName(k) == "ft" \o ToString(k - 1)

ImuName(k) == "imu" \o ToString(k - 1)

\* the force_torque namespace: ids ft0, ft1, ... each attached to some joint
FtConfigs ==
  UNION {{[k \in 1..n |->
             [name |-> FtName(k), sensor_joint |-> js[k],
              frame |-> FrameOf(FtName(k))]] : js \in [1..n -> Joints]}
           : n \in 0..MaxFT}

ImuConfigs == {[k \in 1..n |-> ImuName(k)] : n \in 0..MaxImu}

\* every transmission description up to MaxPairs declarations
InitFactory ==
  /\ InitFacade
  /\ transmissions \in SeqsUpTo(Pairs, MaxPairs)
  /\ modelJoints \in SUBSET Joints
  /\ throwsAt \in 0..MaxPairs
  /\ ftConfig \in
       {c \in FtConfigs :
          Len(c) <= 1 /\ \A k \in DOMAIN c : c[k].sensor_joint = "j1"}
  /\ imuIds = <<>>
  /\ imuSourceExists = TRUE
  /\ modeSwitchParam = "absent"

NextFactory == InitSim

SpecFactory == InitFactory /\ [][NextFactory]_vars

\* every sensor configuration up to MaxFT and MaxImu sensors
InitSensors ==
  /\ InitFacade
  /\ transmissions \in
       {<<>>, <<[joint |-> "j1", iface |-> PositionJointInterface]>>}
  /\ modelJoints \in SUBSET Joints
  /\ throwsAt = 0
  /\ ftConfig \in FtConfigs
  /\ imuIds \in ImuConfigs
  /\ imuSourceExists \in BOOLEAN
  /\ modeSwitchParam = "absent"

NextSensors == InitSim \/ SimStep \/ ReadSim

SpecSensors == InitSensors /\ [][NextSensors]_vars

\* robots whose joints all exist, driven through read/write cycles
CycleTransmissions ==
  {<<[joint |-> "j1", iface |-> JointStateInterface],
     [joint |-> "j1", iface |-> PositionJointInterface],
     [joint |-> "j2", iface |-> EffortJointInterface]>>,
   <<[joint |-> "j1", iface |-> VelocityJointInterface],
     [joint |-> "j2", iface |-> UnknownInterface],
     [joint |-> "j1", iface |-> VelocityJointInterface],
     [joint |-> "j2", iface |-> PositionJointInterface]>>}

InitCycle ==
  /\ InitFacade
  /\ transmissions \in CycleTransmissions
  /\ modelJoints = Joints
  /\ throwsAt = 0
  /\ ftConfig = <<>>
  /\ imuIds = <<>>
  /\ imuSourceExists = TRUE
  /\ modeSwitchParam \in {"absent", "true", "false"}

NextCycle ==
  \/ InitSim
  \/ ReadSim
  \/ SetCommand
  \/ SetEStop
  \/ SwitchBegin
  \/ SwitchCommit
  \/ WriteSimBegin
  \/ WriteSimStep
  \/ WriteSimEnd

SpecCycle == InitCycle /\ [][NextCycle]_vars

(***************************************************************************)
(* Vocabulary of the properties, stated on the declarations themselves     *)
(***************************************************************************)
RecognizedTypes ==
  {JointStateInterface, PositionJointInterface, VelocityJointInterface,
   EffortJointInterface}

Recognized(i) == transmissions[i].iface \in RecognizedTypes

\* the Resource the i-th declaration asks for
Declared(i) ==
  [joint |-> transmissions[i].joint,
   variant |->
     CASE transmissions[i].iface = JointStateInterface -> "JointState"
       [] transmissions[i].iface = PositionJointInterface -> "PositionJoint"
       [] transmissions[i].iface = VelocityJointInterface -> "VelocityJoint"
       [] transmissions[i].iface = EffortJointInterface -> "EffortJoint"
       [] OTHER -> "none"]

JointAbsent(i) == Recognized(i) /\ transmissions[i].joint \notin modelJoints

\* the i-th declaration's init fails unexpectedly: it is the first
\* declaration of its Resource, its joint exists, and the failure is due
UnexpectedFailure(i) ==
  /\ Recognized(i)
  /\ i = throwsAt
  /\ transmissions[i].joint \in modelJoints
  /\ \A k \in 1..(i - 1) : transmissions[k] # transmissions[i]

FatalPair(i) == JointAbsent(i) \/ UnexpectedFailure(i)

\* no declaration can fail fatally
AllPairsValid ==
  /\ \A i \in DOMAIN transmissions : ~JointAbsent(i)
  /\ \A i \in DOMAIN transmissions : Recognized(i) => i # throwsAt

\* how often a Resource occurs in the facade's list
Copies(r) == Cardinality({k \in DOMAIN rw_resources_ : rw_resources_[k] = r})

\* rw_resources_ holds one Resource per declared Resource among the first
\* n declarations, in the order of their first declaration
ListIsFirstDeclarations(n) ==
  /\ Range(rw_resources_) =
       {Declared(i) : i \in {k \in 1..n : Recognized(k)}}
  /\ \A r \in Range(rw_resources_) : Copies(r) = 1
  /\ \A a, b \in DOMAIN rw_resources_ :
       a < b =>
         \E i \in 1..n :
           /\ Recognized(i)
           /\ Declared(i) = rw_resources_[a]
           /\ \A k \in 1..i : ~(Recognized(k) /\ Declared(k) = rw_resources_[b])

\* the declaration at which the loops of initSim stop
FirstFatal(i) == FatalPair(i) /\ \A k \in 1..(i - 1) : ~FatalPair(k)

\* initSim failed at a declaration whose joint is absent
FailsForAbsentJoint ==
  /\ initResult = "fail"
  /\ \E i \in DOMAIN transmissions : FirstFatal(i) /\ JointAbsent(i)

\* the Resource is declared by two declarations
DeclaredTwice(r) ==
  \E i, k \in DOMAIN transmissions :
    /\ i < k
    /\ Recognized(i) /\ Declared(i) = r
    /\ Recognized(k) /\ Declared(k) = r

(***************************************************************************)
(* C1: if the init of a Resource built for a (joint, recognized type)      *)
(* pair fails for another reason than "already exists" (the joint is       *)
(* absent from the model, or an unexpected failure), initSim returns       *)
(* failure.                                                                *)
(***************************************************************************)
C1_FatalInitFailureAborts ==
  (initResult # "none" /\ \E i \in DOMAIN transmissions : FatalPair(i))
    => initResult = "fail"

\* an unexpected failure of the second declaration, after the first was built
C1_Witness ==
  /\ initResult = "fail"
  /\ Len(rw_resources_) = 1
  /\ \E i \in DOMAIN transmissions : UnexpectedFailure(i) /\ i = 2
  /\ \A i \in DOMAIN transmissions : ~JointAbsent(i)

(***************************************************************************)
(* C2 as stated: when initSim fails because a declared joint is absent,    *)
(* no interface group is registered and the resource list holds no         *)
(* Resource built before the failure.                                      *)
(***************************************************************************)
C2_AllOrNothing ==
  FailsForAbsentJoint => (registered = {} /\ rw_resources_ = <<>>)

(***************************************************************************)
(* C2 as amended: when initSim fails because a declared joint is absent,   *)
(* the four joint interface groups stay registered and the resource list   *)
(* keeps exactly the Resources built before the failing declaration; the   *)
(* force-torque and IMU groups are not registered, no sensor definition    *)
(* or handle exists and the active-writer set is empty.                    *)
(***************************************************************************)
C2_FailureKeepsWhatWasBuilt ==
  \A i \in DOMAIN transmissions :
    (initResult = "fail" /\ FirstFatal(i) /\ JointAbsent(i)) =>
      /\ registered = {"js", "ej", "pj", "vj"}
      /\ ListIsFirstDeclarations(i - 1)
      /\ forceTorqueSensorDefinitions_ = <<>>
      /\ ftHandles = <<>>
      /\ imuHandles = <<>>
      /\ active_w_resources_rt_ = <<>>

\* a Resource was built, then a joint was found absent
C2_Witness ==
  /\ FailsForAbsentJoint
  /\ Len(rw_resources_) = 1
  /\ Len(ftConfig) = 1

(***************************************************************************)
(* C3: when some declared force-torque sensor's sensor_joint cannot be     *)
(* resolved in the model, initSim returns failure.                         *)
(***************************************************************************)
C3_UnresolvedSensorJointFailsInit ==
  (/\ initResult # "none"
   /\ \E k \in DOMAIN ftConfig : ftConfig[k].sensor_joint \notin modelJoints)
    => initResult = "fail"

(***************************************************************************)
(* C4: for every joint that declares the same interface type more than     *)
(* once, after initSim succeeds the resource list holds exactly one         *)
(* Resource of that variant for the joint; the repeated declaration does    *)
(* not make initSim fail.                                                   *)
(***************************************************************************)
C4_OneResourcePerRepeatedDeclaration ==
  /\ initResult = "ok" => \A r \in AllRes : DeclaredTwice(r) => Copies(r) = 1
  /\ (/\ initResult # "none"
      /\ AllPairsValid
      /\ \E r \in AllRes : DeclaredTwice(r)) => initResult = "ok"

C4_Witness ==
  /\ initResult = "ok"
  /\ \E r \in AllRes : DeclaredTwice(r) /\ Copies(r) = 1

(***************************************************************************)
(* C5: for a declaration whose type string is none of the four recognized  *)
(* ones, initSim creates and appends no Resource, and initSim succeeds     *)
(* when every other declaration is valid.                                  *)
(***************************************************************************)
C5_UnknownTypeSkipped ==
  /\ \A k \in DOMAIN rw_resources_ :
       \E i \in DOMAIN transmissions :
         Recognized(i) /\ Declared(i) = rw_resources_[k]
  /\ initResult = "ok" => ListIsFirstDeclarations(Len(transmissions))
  /\ (initResult # "none" /\ AllPairsValid) => initResult = "ok"

\* an unknown type on a joint the model does not have, whose init would
\* have failed unexpectedly, next to a valid declaration
C5_Witness ==
  /\ initResult = "ok"
  /\ Len(rw_resources_) = 1
  /\ \E i \in DOMAIN transmissions :
       /\ ~Recognized(i)
       /\ transmissions[i].joint \notin modelJoints
       /\ i = throwsAt

(***************************************************************************)
(* C6: writeSim invokes write only on Resources of the active-writer set;  *)
(* a Resource outside the set keeps its actuator channel as it was, and    *)
(* its command buffer is retained.                                         *)
(***************************************************************************)
C6_OnlyActiveWritersWritten ==
  [][/\ Len(writeLog') > Len(writeLog) =>
          writeLog'[Len(writeLog')].res \in Range(active_w_resources_rt_)
     /\ \A r \in AllRes :
          r \notin Range(active_w_resources_rt_) =>
            /\ applied'[r] = applied[r]
            /\ pcW = "writing" => cmd'[r] = cmd[r]]_vars

\* a writeSim has gone through its loop and left alone a commanded
\* Resource that is not an active writer
C6_Witness ==
  /\ pcW = "writing"
  /\ Len(writeLog) >= 1
  /\ writeIdx > Len(active_w_resources_rt_)
  /\ \E r \in Range(rw_resources_) :
       /\ r.variant # "JointState"
       /\ r \notin Range(active_w_resources_rt_)
       /\ cmd[r] = 1
       /\ applied[r] = NotApplied

(***************************************************************************)
(* C7: a mutation of the active-writer set never interleaves with a        *)
(* writeSim in progress: writeSim holds the mutex from before it reads the *)
(* set until after the last write, and the set it iterates stays what it   *)
(* was when the call began.                                                *)
(***************************************************************************)
C7_WriteExcludesModeSwitch ==
  pcW = "writing" =>
    /\ mutex_ = "rt"
    /\ pcS = "idle"
    /\ active_w_resources_rt_ = writeSnapshot

\* a writeSim in progress over a set that a mode switch had changed before
C7_Witness ==
  /\ pcW = "writing"
  /\ writeIdx = 2
  /\ mode_switch_enabled_
  /\ Len(active_w_resources_rt_) = 1
  /\ active_w_resources_rt_ # InitActiveWriteResources(rw_resources_)

(***************************************************************************)
(* C8: a write made while the emergency-stop flag is true passes           *)
(* eStopActive = true, so the Resource applies its variant's safe value    *)
(* whatever its command buffer holds; the raw command is applied only      *)
(* when the flag is false.                                                 *)
(***************************************************************************)
C8_EStopAppliesSafeValue ==
  [][(pcW = "writing" /\ writeIdx' = writeIdx + 1) =>
       LET res == active_w_resources_rt_[writeIdx]
       IN /\ writeLog'[Len(writeLog')] =
               [res |-> res, eStop |-> e_stop_active_]
          /\ applied'[res] =
               IF e_stop_active_ THEN SafeValue(res.variant)
               ELSE RawValue(cmd[res])]_vars

\* under emergency stop a Resource with a non-zero command was written
C8_Witness ==
  /\ pcW = "writing"
  /\ e_stop_active_
  /\ Len(writeLog) >= 1
  /\ LET last == writeLog[Len(writeLog)]
     IN /\ last.eStop
        /\ cmd[last.res] = 1
        /\ applied[last.res] = SafeValue(last.res.variant)

(***************************************************************************)
(* C9: with two IMU sensor ids declared and the "imu_sensor" source        *)
(* present, after initSim succeeds there are two IMU sensor definitions,   *)
(* each with a registered handle, and after readSim both hold the          *)
(* source's sample.                                                        *)
(***************************************************************************)
C9_TwoImuDefinitionsReadTheSource ==
  (initResult = "ok" /\ Len(imuIds) = 2 /\ imuSourceExists) =>
    /\ Len(imuSensorDefinitions_) = 2
    /\ Len(imuHandles) = 2
    /\ \A k \in DOMAIN imuSensorDefinitions_ :
         /\ imuSensorDefinitions_[k].sensorName = imuIds[k]
         /\ imuSensorDefinitions_[k].orientation =
              imuSensorDefinitions_[1].orientation
         /\ imuSensorDefinitions_[k].base_ang_vel =
              imuSensorDefinitions_[1].base_ang_vel
         /\ imuSensorDefinitions_[k].linear_acceleration =
              imuSensorDefinitions_[1].linear_acceleration

(***************************************************************************)
(* C10: in every reachable state every force-torque sensor definition of   *)
(* the facade's list has a resolved joint, the registered force-torque     *)
(* handles correspond one to one to the list, and readSim never samples    *)
(* an unresolved joint.                                                    *)
(***************************************************************************)
C10_ForceTorqueDefinitionsResolved ==
  /\ \A k \in DOMAIN forceTorqueSensorDefinitions_ :
       LET ft == forceTorqueSensorDefinitions_[k]
       IN /\ ft.gazebo_joint # Null
          /\ ft.gazebo_joint = ft.sensorJointName
          /\ ft.gazebo_joint \in modelJoints
  /\ DOMAIN ftHandles = DOMAIN forceTorqueSensorDefinitions_
  /\ \A k \in DOMAIN ftHandles :
       /\ ftHandles[k].name = forceTorqueSensorDefinitions_[k].sensorName
       /\ ftHandles[k].frame = forceTorqueSensorDefinitions_[k].sensorFrame
  /\ ~nullDeref

\* the parse stopped at the second sensor, and readSim has sampled the first
C10_Witness ==
  /\ initResult = "ok"
  /\ Len(ftConfig) = 2
  /\ Len(forceTorqueSensorDefinitions_) = 1
  /\ ftConfig[2].sensor_joint \notin modelJoints
  /\ forceTorqueSensorDefinitions_[1].force =
       Sample("force", ftConfig[1].sensor_joint, 1)

====
